---- MODULE Spec2Model ----
(***************************************************************************)
(* Radix-2 butterfly stage executor of go-dsp/fft (radix2_simd.go).        *)
(*                                                                         *)
(* A call of processBlocksSIMD is a small state machine: every load of r   *)
(* or of the twiddle table and every store into t is one step, so that     *)
(* two workers running on chunks of the same stage interleave freely.      *)
(* complex128 values are records [re, im] over the integers; Float64x2     *)
(* vectors are pairs <<lane 0, lane 1>>.                                   *)
(***************************************************************************)
EXTENDS Integers, Sequences, FiniteSets, TLC

\* ------------------------------------------------------------------ bounds
\* buffer lengths are 2, 4, ..., 2*MaxHalf
MaxHalf == 5
\* input data patterns 1..MaxSeed
MaxSeed == 2
\* a block loop is followed MaxExtra iterations past the longest loop a chunk
\* of the buffer can need
MaxExtra == 2

\* float64 magnitudes are followed up to MaxMag
MaxMag == 5

\* radix2Worker: minimum transform length of the vectorized executor
SIMDThreshold == 8

Calls == {1, 2}

\* --------------------------------------------------------- complex128 / Go
Cx(a, b) == [re |-> a, im |-> b]
Zero == Cx(0, 0)

\* float64 arithmetic: every operation yields its exact result rounded to a
\* representable value. The representable values here are the integers of
\* magnitude up to MaxMag and rounding saturates, so that, as with float64,
\* + and * commute but do not associate or distribute.
Round(x) == IF x > MaxMag THEN MaxMag ELSE IF x < -MaxMag THEN -MaxMag ELSE x
FAdd(x, y) == Round(x + y)
FSub(x, y) == Round(x - y)
FMul(x, y) == Round(x * y)

\* complex128 +, - and * of the Go language
CAdd(x, y) == Cx(FAdd(x.re, y.re), FAdd(x.im, y.im))
CSub(x, y) == Cx(FSub(x.re, y.re), FSub(x.im, y.im))
CMul(x, y) == Cx(FSub(FMul(x.re, y.re), FMul(x.im, y.im)),
                 FAdd(FMul(x.re, y.im), FMul(x.im, y.re)))

\* Go's integer division truncates toward zero
GoDiv(a, b) ==
    IF (a >= 0) = (b > 0) THEN (IF a >= 0 THEN a \div b ELSE (-a) \div (-b))
    ELSE -((IF a >= 0 THEN a ELSE -a) \div (IF b > 0 THEN b ELSE -b))

\* ------------------------------------------------------- archsimd.Float64x2
\* (*[2]float64)(unsafe.Pointer(&r[i])) followed by LoadFloat64x2: the two
\* float64 of a complex128 are laid out real part first.
LoadFloat64x2(c) == <<c.re, c.im>>
\* Float64x2.Store through (*[2]float64)(unsafe.Pointer(&t[i]))
StoreFloat64x2(v) == Cx(v[1], v[2])
BroadcastFloat64x2(x) == <<x, x>>
VAdd(x, y) == <<FAdd(x[1], y[1]), FAdd(x[2], y[2])>>
VSub(x, y) == <<FSub(x[1], y[1]), FSub(x[2], y[2])>>
VMul(x, y) == <<FMul(x[1], y[1]), FMul(x[2], y[2])>>
\* x.SelectFromPair(a, b, y): lanes a and b of the four lanes of x then y
SelectFromPair(x, a, b, y) ==
    LET four == x \o y IN <<four[a + 1], four[b + 1]>>
\* AddSub with the lanes' operations exchanged
AddSubSwapped(x, y) == <<FAdd(x[1], y[1]), FSub(x[2], y[2])>>
\* x.AddSub(y): subtracts in lane 0, adds in lane 1
AddSub(x, y) == <<FSub(x[1], y[1]), FAdd(x[2], y[2])>>

complexMulSIMD(vec, w) ==
    LET wReal == w.re
        wImag == w.im
        wRealVec == BroadcastFloat64x2(wReal)
        wImagVec == BroadcastFloat64x2(wImag)
        acTerm == VMul(vec, wRealVec)
        vecSwapped == SelectFromPair(vec, 1, 0, vec)
        bdTerm == VMul(vecSwapped, wImagVec)
    IN  AddSub(acTerm, bdTerm)

\* ------------------------------------------------------------------- state
VARIABLES
    useSIMD,    \* line 27: the hardware capability flag
    mode,       \* how the calls are arranged: "single", "parallel", "inplace"
    mem,        \* buffer name -> contents, a function on 0..len-1
    mem0,       \* the buffers as they were before any call ran
    wargs,      \* call -> the parameters radix2Worker was called with
    args,       \* call -> the parameters its executor was called with
    pc,         \* call -> position in the code
    loc,        \* call -> the executor's local variables
    hist        \* call -> what the call has done so far

vars == <<useSIMD, mode, mem, mem0, wargs, args, pc, loc, hist>>

len(b) == Cardinality(DOMAIN mem[b])
InRange(b, i) == i \in DOMAIN mem[b]

NoArgs == [lx |-> 0, start |-> 0, end |-> 0, stage |-> 0, s_2 |-> 0,
           blocks |-> 0, r |-> "r", t |-> "t", factors |-> "factors"]

Locals0 == [nb |-> 0, j |-> 0, simdLimit |-> 0,
            rn |-> Zero, rn1 |-> Zero,
            r1 |-> <<0, 0>>, r2 |-> <<0, 0>>,
            rIdx2_1 |-> <<0, 0>>, rIdx2_2 |-> <<0, 0>>,
            w1 |-> Zero, w2 |-> Zero,
            t1_add |-> <<0, 0>>, t1_sub |-> <<0, 0>>,
            t2_add |-> <<0, 0>>, t2_sub |-> <<0, 0>>,
            ridx |-> Zero, ridx2 |-> Zero, w_n |-> Zero]

Hist0(n) == [simdCalls |-> 0,       \* entries into processBlocksSIMD
             scalarCalls |-> 0,     \* entries into radix2WorkerScalar
             wcount |-> [i \in 0..(n - 1) |-> 0],  \* stores per t index
             used |-> {},           \* indices used on r and t
             fused |-> {},          \* indices used on the twiddle table
             muls |-> 0,            \* complex multiplications
             iters |-> 0,           \* block-loop iterations begun
             bfly |-> 0,            \* butterflies of the current block
             jlog |-> <<>>,         \* <<j, path>> of the current block
             stale |-> {}]          \* indices loaded after the call stored there

\* ----------------------------------------------------------------- inputs
RVal(sd, i) == Cx(((sd * (i + 1)) % 5) - 2, ((i * i + sd) % 3) - 1)
TVal(i) == Cx((i % 3) - MaxMag, MaxMag - (i % 2))
FVal(sd, k) == Cx(((k + sd) % 4) - 1, 1 - (k % 3))

Buffers(n, sd, tcopy) ==
    [b \in {"r", "t", "u", "factors"} |->
        CASE b = "r" -> [i \in 0..(n - 1) |-> RVal(sd, i)]
          [] b = "u" -> [i \in 0..(n - 1) |-> RVal(sd, i)]
          [] b = "t" -> [i \in 0..(n - 1) |-> IF tcopy THEN RVal(sd, i) ELSE TVal(i)]
          [] b = "factors" -> [k \in 0..((n \div 2) - 1) |-> FVal(sd, k)]]

\* the spans a buffer of length n can be cut into
Stages(n) == {s \in 2..n : s % 2 = 0 /\ n % s = 0}
\* block-start boundaries
Bounds(n, stage) == {k \in 0..n : k % stage = 0}

Descriptor(n, stage, start, end, rb, tb) ==
    [lx |-> n, start |-> start, end |-> end, stage |-> stage,
     s_2 |-> GoDiv(stage, 2), blocks |-> GoDiv(n, stage),
     r |-> rb, t |-> tb, factors |-> "factors"]

\* the state before the calls run: `direct` calls enter processBlocksSIMD,
\* the others enter radix2Worker
Start(n, sd, flag, m, direct, a1, a2, two) ==
    /\ useSIMD = flag
    /\ mode = m
    /\ mem = Buffers(n, sd, m = "inplace")
    /\ mem0 = Buffers(n, sd, m = "inplace")
    /\ wargs = [c \in Calls |-> IF direct THEN NoArgs ELSE IF c = 1 THEN a1 ELSE a2]
    /\ args = [c \in Calls |-> IF ~direct THEN NoArgs ELSE IF c = 1 THEN a1 ELSE a2]
    /\ pc = [c \in Calls |->
                IF c = 2 /\ ~two THEN "idle"
                ELSE IF direct THEN "simd" ELSE "worker"]
    /\ loc = [c \in Calls |-> Locals0]
    /\ hist = [c \in Calls |-> Hist0(n)]

InitSingle ==
    \E h \in 1..MaxHalf, sd \in 1..MaxSeed, direct \in BOOLEAN, flag \in BOOLEAN :
      \E stage \in Stages(2 * h) :
        \E start, end \in Bounds(2 * h, stage) :
          /\ start <= end
          /\ direct => flag
          /\ Start(2 * h, sd, flag, "single", direct,
                   Descriptor(2 * h, stage, start, end, "r", "t"), NoArgs, FALSE)

InitParallel ==
    \E h \in 1..MaxHalf, sd \in 1..MaxSeed, direct \in BOOLEAN, flag \in BOOLEAN :
      \E stage \in Stages(2 * h) :
        \E start1, end1, start2, end2 \in Bounds(2 * h, stage) :
          /\ start1 <= end1 /\ end1 <= start2 /\ start2 <= end2
          /\ direct => flag
          /\ Start(2 * h, sd, flag, "parallel", direct,
                   Descriptor(2 * h, stage, start1, end1, "r", "t"),
                   Descriptor(2 * h, stage, start2, end2, "r", "t"), TRUE)

InitInPlace ==
    \E h \in 1..MaxHalf, sd \in 1..MaxSeed :
      \E stage \in Stages(2 * h) :
        \E start, end \in Bounds(2 * h, stage) :
          /\ start <= end
          /\ Start(2 * h, sd, TRUE, "inplace", TRUE,
                   Descriptor(2 * h, stage, start, end, "r", "t"),
                   Descriptor(2 * h, stage, start, end, "u", "u"), TRUE)

Init == InitSingle \/ InitParallel \/ InitInPlace

\* One direct call of processBlocksSIMD with any span, the degenerate ones
\* (stage <= 1) too, on a chunk that starts at a block start and ends
\* anywhere in the buffer.
InitTerm ==
    \E h \in 1..MaxHalf, sd \in 1..MaxSeed :
      \E stage \in Stages(2 * h) \cup {-2, -1, 0, 1} :
        \E start, end \in 0..(2 * h) :
          /\ start <= end
          /\ stage >= 2 => start % stage = 0
          /\ Start(2 * h, sd, TRUE, "single", TRUE,
                   [Descriptor(2 * h, IF stage = 0 THEN 1 ELSE stage,
                               start, end, "r", "t")
                      EXCEPT !.stage = stage, !.s_2 = GoDiv(stage, 2),
                             !.blocks = IF stage = 0 THEN 0 ELSE @],
                   NoArgs, FALSE)

\* ------------------------------------------------------------ radix2Worker
\* the threshold taken as exclusive
ChooseSIMDStrict(flag, lx) == flag /\ lx > SIMDThreshold
\* line 35: the vectorized executor is chosen
ChooseSIMD(flag, lx) == flag /\ lx >= SIMDThreshold

\* line 37: processBlocksSIMD(start, end, stage, s_2, blocks, r, t, factors)
PassSIMD(w) == [w EXCEPT !.lx = 0]
\* line 40: radix2WorkerScalar(lx, start, end, stage, s_2, blocks, r, t, factors)
PassScalar(w) == w

\* in the "inplace" arrangement the second call runs after the first
Runnable(c) == (mode = "inplace" /\ c = 2) => pc[1] \in {"done", "panic"}

radix2Worker(c) ==
    /\ pc[c] = "worker"
    /\ LET simd == ChooseSIMD(useSIMD, wargs[c].lx) IN
        /\ pc' = [pc EXCEPT ![c] = IF simd THEN "simd" ELSE "scalar"]
        /\ args' = [args EXCEPT ![c] = IF simd THEN PassSIMD(wargs[c])
                                               ELSE PassScalar(wargs[c])]
    /\ UNCHANGED <<useSIMD, mode, mem, mem0, wargs, loc, hist>>

\* The butterfly of section 4.3 at index i of the chunk of a, read from the
\* buffers m: the span-2 case has no twiddle multiply.
ScalarButterfly(a, m, i) ==
    LET r == m[a.r]
        w == m[a.factors]
        off == (i - a.start) % a.stage
    IN  IF a.stage = 2
        THEN IF off = 0 THEN CAdd(r[i], r[i + 1]) ELSE CSub(r[i - 1], r[i])
        ELSE IF off < a.s_2
             THEN CAdd(r[i], CMul(r[i + a.s_2], w[a.blocks * off]))
             ELSE CSub(r[i - a.s_2], CMul(r[i], w[a.blocks * (off - a.s_2)]))

InChunk(a, i) == a.start <= i /\ i < a.end

\* the scalar executor: its code is not part of this file; it is the scalar
\* butterfly of section 4.3 applied to the chunk
radix2WorkerScalar(c) ==
    /\ pc[c] = "scalar"
    /\ mem' = [mem EXCEPT ![args[c].t] =
                  [i \in DOMAIN @ |-> IF InChunk(args[c], i)
                                      THEN ScalarButterfly(args[c], mem, i)
                                      ELSE @[i]]]
    /\ pc' = [pc EXCEPT ![c] = "done"]
    /\ hist' = [hist EXCEPT ![c].scalarCalls = @ + 1]
    /\ UNCHANGED <<useSIMD, mode, mem0, wargs, args, loc>>

\* ------------------------------------------------------- processBlocksSIMD
\* the limit one pair short
SimdLimitShort(a) == GoDiv(a.s_2, 2) * 2 - 2
\* line 61
SimdLimit(a) == GoDiv(a.s_2, 2) * 2
\* lines 66-69, 119-120
Idx1(a, l) == l.j + l.nb
\* the partner taken a whole span away
Idx2Stage(a, l) == Idx1(a, l) + a.stage
Idx2(a, l) == Idx1(a, l) + a.s_2
\* the twiddle stride taken to be the span
TwIdxSpan(a, j) == a.stage * j
\* lines 88-89, 122
TwIdx(a, j) == a.blocks * j
\* n1 without the + 1
N1Same(l) == l.nb
\* line 50
N1(l) == l.nb + 1
\* the block loop stepping by the half span
NextBlockHalf(a, l) == l.nb + a.s_2
\* line 47: nb += stage
NextBlock(a, l) == l.nb + a.stage
\* the span-2 case left to the general path
BlockPathNoSpan2(a) == IF SimdLimit(a) >= 2 THEN "vfor" ELSE "rfor"
\* lines 48 and 63: the path a block takes
BlockPath(a) ==
    IF a.stage = 2 THEN "s2_rn"
    ELSE IF SimdLimit(a) >= 2 THEN "vfor" ELSE "rfor"

\* a block-loop iteration may begin
MayIterate(c) == hist[c].iters < MaxHalf + MaxExtra

\* the value a load of b[i] yields once its index has passed the check
At(b, i) == IF InRange(b, i) THEN mem[b][i] ELSE Zero

\* One load of buffer b at index i, at position `from`: the index is checked,
\* the locals become newloc (which holds At(b, i)), and control moves on to `to`.
Load(c, from, to, b, i, newloc, isTwiddle) ==
    /\ pc[c] = from
    /\ Runnable(c)
    /\ hist' = IF isTwiddle
               THEN [hist EXCEPT ![c].fused = @ \cup {i}]
               ELSE [hist EXCEPT ![c].used = @ \cup {i},
                                 ![c].stale = IF b = args[c].t /\ InRange(b, i)
                                                  /\ hist[c].wcount[i] > 0
                                              THEN @ \cup {i} ELSE @]
    /\ IF InRange(b, i)
       THEN /\ loc' = [loc EXCEPT ![c] = newloc]
            /\ pc' = [pc EXCEPT ![c] = to]
       ELSE /\ pc' = [pc EXCEPT ![c] = "panic"]
            /\ UNCHANGED loc
    /\ UNCHANGED <<useSIMD, mode, mem, mem0, wargs, args>>

\* One store of v into buffer b at index i, at position `from`; the locals
\* become newloc; `done` is the <<j, path>> of the butterflies this store
\* completes and muls the complex multiplications they took.
Store(c, from, to, b, i, v, newloc, done, muls) ==
    /\ pc[c] = from
    /\ Runnable(c)
    /\ IF InRange(b, i)
       THEN /\ mem' = [mem EXCEPT ![b][i] = v]
            /\ hist' = [hist EXCEPT ![c].used = @ \cup {i},
                                    ![c].wcount[i] = @ + 1,
                                    ![c].bfly = @ + Len(done),
                                    ![c].jlog = @ \o done,
                                    ![c].muls = @ + muls]
            /\ loc' = [loc EXCEPT ![c] = newloc]
            /\ pc' = [pc EXCEPT ![c] = to]
       ELSE /\ pc' = [pc EXCEPT ![c] = "panic"]
            /\ hist' = [hist EXCEPT ![c].used = @ \cup {i}]
            /\ UNCHANGED <<mem, loc>>
    /\ UNCHANGED <<useSIMD, mode, mem0, wargs, args>>

\* line 47: nb := start
ForInit(c) ==
    /\ pc[c] = "simd"
    /\ Runnable(c)
    /\ loc' = [loc EXCEPT ![c].nb = args[c].start]
    /\ pc' = [pc EXCEPT ![c] = "for"]
    /\ hist' = [hist EXCEPT ![c].simdCalls = @ + 1]
    /\ UNCHANGED <<useSIMD, mode, mem, mem0, wargs, args>>

\* lines 47-48 and 60-63: nb < end, then the choice of the block's path
ForCond(c) ==
    /\ pc[c] = "for"
    /\ Runnable(c)
    /\ LET a == args[c] IN
       IF loc[c].nb < a.end
       THEN /\ MayIterate(c)
            /\ hist' = [hist EXCEPT ![c].iters = @ + 1, ![c].bfly = 0,
                                    ![c].jlog = <<>>]
            /\ pc' = [pc EXCEPT ![c] = BlockPath(a)]
            /\ loc' = IF BlockPath(a) = "s2_rn" THEN loc
                      ELSE [loc EXCEPT ![c].j = 0, ![c].simdLimit = SimdLimit(a)]
       ELSE /\ pc' = [pc EXCEPT ![c] = "done"]
            /\ UNCHANGED <<loc, hist>>
    /\ UNCHANGED <<useSIMD, mode, mem, mem0, wargs, args>>

\* line 47: nb += stage
ForPost(c) ==
    /\ pc[c] = "next"
    /\ Runnable(c)
    /\ loc' = [loc EXCEPT ![c].nb = NextBlock(args[c], loc[c])]
    /\ pc' = [pc EXCEPT ![c] = "for"]
    /\ UNCHANGED <<useSIMD, mode, mem, mem0, wargs, args, hist>>

\* line 51
Stage2LoadRn(c) ==
    Load(c, "s2_rn", "s2_rn1", args[c].r, loc[c].nb,
         [loc[c] EXCEPT !.rn = At(args[c].r, loc[c].nb)], FALSE)
\* line 52
Stage2LoadRn1(c) ==
    Load(c, "s2_rn1", "s2_t", args[c].r, N1(loc[c]),
         [loc[c] EXCEPT !.rn1 = At(args[c].r, N1(loc[c]))], FALSE)
\* line 53
Stage2StoreT(c) ==
    Store(c, "s2_t", "s2_t1", args[c].t, loc[c].nb,
          CAdd(loc[c].rn, loc[c].rn1), loc[c], <<>>, 0)
\* lines 54-55
Stage2StoreT1(c) ==
    Store(c, "s2_t1", "next", args[c].t, N1(loc[c]),
          CSub(loc[c].rn, loc[c].rn1), loc[c], <<<<0, "span2">>>>, 0)

\* line 65: j < simdLimit
SimdFor(c) ==
    /\ pc[c] = "vfor"
    /\ Runnable(c)
    /\ pc' = [pc EXCEPT ![c] = IF loc[c].j < loc[c].simdLimit THEN "v_r1" ELSE "rfor"]
    /\ UNCHANGED <<useSIMD, mode, mem, mem0, wargs, args, loc, hist>>

\* lines 73, 77
SimdLoadR1(c) ==
    Load(c, "v_r1", "v_r2", args[c].r, Idx1(args[c], loc[c]),
         [loc[c] EXCEPT !.r1 = LoadFloat64x2(At(args[c].r, Idx1(args[c], loc[c])))], FALSE)
\* lines 74, 78
SimdLoadR2(c) ==
    Load(c, "v_r2", "v_i1", args[c].r, Idx1(args[c], loc[c]) + 1,
         [loc[c] EXCEPT !.r2 = LoadFloat64x2(At(args[c].r, Idx1(args[c], loc[c]) + 1))], FALSE)
\* lines 81, 84
SimdLoadRIdx2_1(c) ==
    Load(c, "v_i1", "v_i2", args[c].r, Idx2(args[c], loc[c]),
         [loc[c] EXCEPT !.rIdx2_1 = LoadFloat64x2(At(args[c].r, Idx2(args[c], loc[c])))], FALSE)
\* lines 82, 85
SimdLoadRIdx2_2(c) ==
    Load(c, "v_i2", "v_w1", args[c].r, Idx2(args[c], loc[c]) + 1,
         [loc[c] EXCEPT !.rIdx2_2 = LoadFloat64x2(At(args[c].r, Idx2(args[c], loc[c]) + 1))], FALSE)
\* line 88
SimdLoadW1(c) ==
    Load(c, "v_w1", "v_w2", args[c].factors, TwIdx(args[c], loc[c].j),
         [loc[c] EXCEPT !.w1 = At(args[c].factors, TwIdx(args[c], loc[c].j))], TRUE)
\* line 89
SimdLoadW2(c) ==
    Load(c, "v_w2", "v_mul", args[c].factors, TwIdx(args[c], loc[c].j + 1),
         [loc[c] EXCEPT !.w2 = At(args[c].factors, TwIdx(args[c], loc[c].j + 1))], TRUE)

\* lines 95-108: the two products, the four sums and differences, and the
\* four pointers into t (each &t[i] checks its index)
SimdButterfly(c) ==
    /\ pc[c] = "v_mul"
    /\ Runnable(c)
    /\ LET l == loc[c]
           a == args[c]
           w_n_1 == complexMulSIMD(l.rIdx2_1, l.w1)
           w_n_2 == complexMulSIMD(l.rIdx2_2, l.w2)
           ptrs == {Idx1(a, l), Idx2(a, l), Idx1(a, l) + 1, Idx2(a, l) + 1}
       IN  /\ loc' = [loc EXCEPT ![c].t1_add = VAdd(l.r1, w_n_1),
                                 ![c].t1_sub = VSub(l.r1, w_n_1),
                                 ![c].t2_add = VAdd(l.r2, w_n_2),
                                 ![c].t2_sub = VSub(l.r2, w_n_2)]
           /\ hist' = [hist EXCEPT ![c].muls = @ + 2, ![c].used = @ \cup ptrs]
           /\ pc' = [pc EXCEPT ![c] =
                        IF \A i \in ptrs : InRange(a.t, i) THEN "v_st1" ELSE "panic"]
    /\ UNCHANGED <<useSIMD, mode, mem, mem0, wargs, args>>

\* line 110
SimdStore1(c) ==
    Store(c, "v_st1", "v_st2", args[c].t, Idx1(args[c], loc[c]),
          StoreFloat64x2(loc[c].t1_add), loc[c], <<>>, 0)
\* line 111
SimdStore2(c) ==
    Store(c, "v_st2", "v_st3", args[c].t, Idx2(args[c], loc[c]),
          StoreFloat64x2(loc[c].t1_sub), loc[c], <<>>, 0)
\* line 112
SimdStore3(c) ==
    Store(c, "v_st3", "v_st4", args[c].t, Idx1(args[c], loc[c]) + 1,
          StoreFloat64x2(loc[c].t2_add), loc[c], <<>>, 0)
\* lines 113, 65: the last store of the pair, then j += 2
SimdStore4(c) ==
    Store(c, "v_st4", "vfor", args[c].t, Idx2(args[c], loc[c]) + 1,
          StoreFloat64x2(loc[c].t2_sub),
          [loc[c] EXCEPT !.j = @ + 2],
          <<<<loc[c].j, "vec">>, <<loc[c].j + 1, "vec">>>>, 0)

\* line 118: j < s_2
ScalarFor(c) ==
    /\ pc[c] = "rfor"
    /\ Runnable(c)
    /\ pc' = [pc EXCEPT ![c] = IF loc[c].j < args[c].s_2 THEN "r_ridx" ELSE "next"]
    /\ UNCHANGED <<useSIMD, mode, mem, mem0, wargs, args, loc, hist>>

\* line 121
ScalarLoadRidx(c) ==
    Load(c, "r_ridx", "r_ridx2", args[c].r, Idx1(args[c], loc[c]),
         [loc[c] EXCEPT !.ridx = At(args[c].r, Idx1(args[c], loc[c]))], FALSE)
\* line 122: r[idx2]
ScalarLoadRidx2(c) ==
    Load(c, "r_ridx2", "r_w", args[c].r, Idx2(args[c], loc[c]),
         [loc[c] EXCEPT !.ridx2 = At(args[c].r, Idx2(args[c], loc[c]))], FALSE)
\* line 122: w_n := r[idx2] * factors[blocks*j]
ScalarMul(c) ==
    Load(c, "r_w", "r_st1", args[c].factors, TwIdx(args[c], loc[c].j),
         [loc[c] EXCEPT !.w_n = CMul(loc[c].ridx2, At(args[c].factors, TwIdx(args[c], loc[c].j)))], TRUE)
\* line 123
ScalarStore1(c) ==
    Store(c, "r_st1", "r_st2", args[c].t, Idx1(args[c], loc[c]),
          CAdd(loc[c].ridx, loc[c].w_n), loc[c], <<>>, 0)
\* lines 124, 118: the second store, then j++
ScalarStore2(c) ==
    Store(c, "r_st2", "rfor", args[c].t, Idx2(args[c], loc[c]),
          CSub(loc[c].ridx, loc[c].w_n),
          [loc[c] EXCEPT !.j = @ + 1],
          <<<<loc[c].j, "rem">>>>, 1)

\* -------------------------------------------------------------------- Next
StepSIMD(c) ==
    \/ ForInit(c) \/ ForCond(c) \/ ForPost(c)
    \/ Stage2LoadRn(c) \/ Stage2LoadRn1(c) \/ Stage2StoreT(c) \/ Stage2StoreT1(c)
    \/ SimdFor(c)
    \/ SimdLoadR1(c) \/ SimdLoadR2(c) \/ SimdLoadRIdx2_1(c) \/ SimdLoadRIdx2_2(c)
    \/ SimdLoadW1(c) \/ SimdLoadW2(c) \/ SimdButterfly(c)
    \/ SimdStore1(c) \/ SimdStore2(c) \/ SimdStore3(c) \/ SimdStore4(c)
    \/ ScalarFor(c)
    \/ ScalarLoadRidx(c) \/ ScalarLoadRidx2(c) \/ ScalarMul(c)
    \/ ScalarStore1(c) \/ ScalarStore2(c)

Next == \E c \in Calls : radix2Worker(c) \/ radix2WorkerScalar(c) \/ StepSIMD(c)

Spec == Init /\ [][Next]_vars

\* processBlocksSIMD alone; a call that can take a step takes it
NextSIMD == \E c \in Calls : StepSIMD(c)
SpecTerm == InitTerm /\ [][NextSIMD]_vars /\ WF_vars(NextSIMD)

\* ================================================================== claims
N == len("r")
IsPow2(x) == \E k \in 0..10 : x = 2 ^ k

\* the stage descriptor and chunk of section 3
Valid(a) ==
    /\ IsPow2(N) /\ IsPow2(a.stage) /\ 2 <= a.stage /\ a.stage <= N
    /\ a.s_2 * 2 = a.stage /\ a.blocks * a.stage = N
    /\ 0 <= a.start /\ a.start <= a.end /\ a.end <= N
    /\ a.start % a.stage = 0 /\ a.end % a.stage = 0

\* call c has entered processBlocksSIMD
InSIMD(c) == hist[c].simdCalls > 0
BlockStarts(a) == {nb \in a.start..(a.end - 1) : (nb - a.start) % a.stage = 0}
Written(c) == {i \in 0..(N - 1) : hist[c].wcount[i] > 0}
GeneralPcs == {"vfor", "v_r1", "v_r2", "v_i1", "v_i2", "v_w1", "v_w2", "v_mul",
               "v_st1", "v_st2", "v_st3", "v_st4",
               "rfor", "r_ridx", "r_ridx2", "r_w", "r_st1", "r_st2"}
RemainderPcs == {"r_ridx", "r_ridx2", "r_w", "r_st1", "r_st2"}

\* C1: two workers of one stage on disjoint chunks never both write the same
\* index of t, whatever the interleaving of their loads and stores.
C1_DisjointWrites ==
    mode = "parallel" => Written(1) \cap Written(2) = {}

C1_Witness ==
    /\ mode = "parallel"
    /\ pc[1] = "v_st3" /\ pc[2] = "v_st2"
    /\ Written(1) # {} /\ Written(2) # {}

\* C2: for a valid stage descriptor and chunk every index used on r and t is
\* in [0, N) and every twiddle index used is in [0, N/2).
C2_IndicesInRange ==
    \A c \in Calls :
        (InSIMD(c) /\ Valid(args[c])) =>
            /\ hist[c].used \subseteq 0..(N - 1)
            /\ hist[c].fused \subseteq 0..((N \div 2) - 1)
            /\ pc[c] # "panic"

C2_Witness ==
    \E c \in Calls :
        /\ InSIMD(c) /\ Valid(args[c]) /\ pc[c] = "done"
        /\ args[c].stage > 2
        /\ (N - 1) \in hist[c].used
        /\ (args[c].blocks * (args[c].s_2 - 1)) \in hist[c].fused

\* C3: for stage > 2 every value processBlocksSIMD has stored into t is the
\* scalar butterfly of the inputs: t[nb+j] = r[nb+j] + r[nb+j+s_2]*w[blocks*j]
\* and t[nb+j+s_2] = r[nb+j] - r[nb+j+s_2]*w[blocks*j], with the product
\* (ac - bd) + (ad + bc)i.
C3_VectorEqualsScalar ==
    \A c \in Calls :
        LET a == args[c]
            r == mem0[a.r]
            w == mem0[a.factors]
            t == mem[a.t]
            \* (a + bi)(c + di) = (ac - bd) + (ad + bc)i
            Product(x, y) == [re |-> FSub(FMul(x.re, y.re), FMul(x.im, y.im)),
                              im |-> FAdd(FMul(x.re, y.im), FMul(x.im, y.re))]
        IN  (InSIMD(c) /\ a.stage > 2 /\ a.r # a.t) =>
                \A nb \in BlockStarts(a) : \A j \in 0..(a.s_2 - 1) :
                    LET w_n == Product(r[nb + j + a.s_2], w[a.blocks * j]) IN
                    /\ (nb + j) \in Written(c) =>
                          t[nb + j] = [re |-> FAdd(r[nb + j].re, w_n.re),
                                       im |-> FAdd(r[nb + j].im, w_n.im)]
                    /\ (nb + j + a.s_2) \in Written(c) =>
                          t[nb + j + a.s_2] = [re |-> FSub(r[nb + j].re, w_n.re),
                                               im |-> FSub(r[nb + j].im, w_n.im)]

C3_Witness ==
    \E c \in Calls :
        /\ InSIMD(c) /\ pc[c] = "done"
        /\ args[c].stage > 2 /\ args[c].r # args[c].t
        /\ Written(c) = {i \in 0..(N - 1) : InChunk(args[c], i)}
        /\ \E k \in 1..Len(hist[c].jlog) : hist[c].jlog[k][2] = "vec"

\* C4: with stage = 2 every block gets t[nb] = r[nb] + r[nb+1] and
\* t[nb+1] = r[nb] - r[nb+1]; no twiddle entry is read and nothing is
\* multiplied.
C4_Span2 ==
    \A c \in Calls :
        LET a == args[c]
            r == mem0[a.r]
            t == mem[a.t]
        IN  (InSIMD(c) /\ a.stage = 2 /\ a.r # a.t) =>
                /\ hist[c].fused = {}
                /\ hist[c].muls = 0
                /\ pc[c] \notin GeneralPcs
                /\ \A nb \in BlockStarts(a) :
                    /\ nb \in Written(c) => t[nb] = CAdd(r[nb], r[nb + 1])
                    /\ (nb + 1) \in Written(c) => t[nb + 1] = CSub(r[nb], r[nb + 1])
                    /\ pc[c] = "done" => {nb, nb + 1} \subseteq Written(c)

C4_Witness ==
    \E c \in Calls :
        /\ InSIMD(c) /\ pc[c] = "done"
        /\ args[c].stage = 2 /\ args[c].r # args[c].t
        /\ Cardinality(BlockStarts(args[c])) >= 2

\* the two chunks cut [0, N) in two
Partition == args[1].start = 0 /\ args[1].end = args[2].start /\ args[2].end = N

\* C5: a call writes every index of its chunk exactly once, and the calls of
\* a partition of [0, N) together write every index of t exactly once.
C5_WrittenOnce ==
    /\ \A c \in Calls :
          (InSIMD(c) /\ Valid(args[c])) =>
              /\ \A i \in 0..(N - 1) : hist[c].wcount[i] <= 1
              /\ pc[c] = "done" =>
                    \A i \in 0..(N - 1) :
                        InChunk(args[c], i) => hist[c].wcount[i] = 1
    /\ (/\ mode = "parallel" /\ Partition
        /\ \A c \in Calls : InSIMD(c) /\ Valid(args[c]) /\ pc[c] = "done") =>
            \A i \in 0..(N - 1) : hist[1].wcount[i] + hist[2].wcount[i] = 1

C5_Witness ==
    /\ mode = "parallel" /\ Partition
    /\ \A c \in Calls : InSIMD(c) /\ Valid(args[c]) /\ pc[c] = "done"
    /\ 0 < args[1].end /\ args[1].end < N
    /\ args[1].stage > 2

\* C6: with r and t distinct, processBlocksSIMD (also when radix2Worker ran
\* it) leaves r and the twiddle table as they were, stores only inside its
\* chunk, and t outside the chunks is as it was.
C6_Frame ==
    \A c \in Calls :
        LET a == args[c] IN
        (a.r # a.t /\ \A d \in Calls : hist[d].scalarCalls = 0) =>
            /\ mem[a.r] = mem0[a.r]
            /\ mem[a.factors] = mem0[a.factors]
            /\ \A i \in Written(c) : InChunk(a, i)
            /\ \A i \in 0..(N - 1) :
                  (\A d \in Calls : args[d].t = a.t => ~InChunk(args[d], i)) =>
                      mem[a.t][i] = mem0[a.t][i]

C6_Witness ==
    \E c \in Calls :
        /\ InSIMD(c) /\ pc[c] = "done"
        /\ wargs[c].lx > 0
        /\ args[c].r # args[c].t
        /\ 0 < args[c].start /\ args[c].start < args[c].end /\ args[c].end < N

\* C7: radix2Worker runs processBlocksSIMD exactly when useSIMD holds and
\* lx >= 8, radix2WorkerScalar otherwise; one executor per call, with the
\* arguments it was given.
C7_Dispatch ==
    \A c \in Calls :
        LET w == wargs[c]
            a == args[c]
            h == hist[c]
            simd == useSIMD /\ w.lx >= 8
        IN  (w.lx > 0) =>
                /\ h.simdCalls + h.scalarCalls <= 1
                /\ (h.simdCalls = 1 \/ pc[c] = "simd") => simd
                /\ (h.scalarCalls = 1 \/ pc[c] = "scalar") => ~simd
                /\ pc[c] = "done" => h.simdCalls + h.scalarCalls = 1
                /\ pc[c] # "worker" =>
                      /\ a.start = w.start /\ a.end = w.end /\ a.stage = w.stage
                      /\ a.s_2 = w.s_2 /\ a.blocks = w.blocks
                      /\ a.r = w.r /\ a.t = w.t /\ a.factors = w.factors

C7_Witness ==
    \E c \in Calls :
        /\ wargs[c].lx = 8 /\ useSIMD
        /\ pc[c] = "done" /\ hist[c].simdCalls = 1
        /\ args[c].start < args[c].end

\* ceil(x / y) for x >= 0, y > 0
CeilDiv(x, y) == (x + y - 1) \div y

\* C8: with stage >= 2 and start <= end the call terminates, after exactly
\* ceil((end - start)/stage) block iterations of s_2 butterflies each; nb and
\* j strictly increase, and nb fails to increase only when stage <= 0.
C8_Terminates ==
    /\ (args[1].stage >= 2) ~> (pc[1] = "done")
    /\ [](args[1].stage >= 2 =>
            /\ pc[1] = "next" => hist[1].bfly = args[1].s_2
            /\ pc[1] = "done" =>
                  hist[1].iters = CeilDiv(args[1].end - args[1].start, args[1].stage)
            /\ pc[1] # "panic")
    /\ [][((pc[1] = "next" /\ pc'[1] = "for") =>
              ((loc'[1].nb > loc[1].nb) <=> (args[1].stage > 0)))
          /\ ((pc[1] \in {"v_st4", "r_st2"} /\ pc'[1] \in {"vfor", "rfor"}) =>
              loc'[1].j > loc[1].j)]_vars

C8_Witness ==
    /\ pc[1] = "done" /\ hist[1].simdCalls = 1 /\ wargs[1].lx = 0
    /\ args[1].stage >= 4
    /\ (args[1].end - args[1].start) % args[1].stage # 0
    /\ hist[1].iters >= 2

\* C9: in a block every j in [0, s_2) is processed exactly once, by a vector
\* pair (j even, j + 1 < simdLimit) or by the remainder loop; for a valid
\* descriptor with stage > 2 simdLimit = s_2 and the remainder loop does
\* nothing; an odd s_2 of a valid descriptor is the span-2 case.
C9_EachJOnce ==
    \A c \in Calls :
        LET a == args[c]
            l == loc[c]
            log == hist[c].jlog
        IN  InSIMD(c) =>
            /\ a.stage # 2 =>
                /\ \A k \in 1..Len(log) :
                    /\ log[k][1] = k - 1
                    /\ log[k][2] = "vec" =>
                          IF (k - 1) % 2 = 0
                          THEN /\ k < l.simdLimit
                               /\ k + 1 <= Len(log) /\ log[k + 1][2] = "vec"
                          ELSE log[k - 1][2] = "vec"
                    /\ log[k][2] = "rem" => k - 1 >= l.simdLimit
                /\ pc[c] = "next" => Len(log) = a.s_2
            /\ (Valid(a) /\ a.stage > 2) =>
                /\ pc[c] \in GeneralPcs => l.simdLimit = a.s_2
                /\ pc[c] \notin RemainderPcs
                /\ \A k \in 1..Len(log) : log[k][2] = "vec"
            /\ (Valid(a) /\ a.s_2 % 2 = 1) =>
                /\ a.stage = 2
                /\ pc[c] \notin GeneralPcs

C9_Witness ==
    \E c \in Calls :
        /\ InSIMD(c) /\ Valid(args[c]) /\ pc[c] = "next"
        /\ args[c].s_2 >= 4
        /\ Len(hist[c].jlog) = args[c].s_2

\* C10: run in place (t the same buffer as r) the call leaves the buffer with
\* what the out-of-place call on the same r leaves in t: no load reads an
\* index the call has stored to.
C10_InPlace ==
    (mode = "inplace" /\ Valid(args[2])) =>
        /\ hist[2].stale = {}
        /\ (pc[1] = "done" /\ pc[2] = "done") => mem["u"] = mem["t"]

C10_Witness ==
    /\ mode = "inplace" /\ Valid(args[2])
    /\ pc[1] = "done" /\ pc[2] = "done"
    /\ args[2].stage > 2
    /\ Cardinality(BlockStarts(args[2])) >= 2
    /\ mem["u"] # mem0["u"]

====
